---- MODULE Spec2Model ----
(***************************************************************************)
(* Model of crates/gpui/playground/src/element.rs: the dynamic element     *)
(* handle (AnyElement / StatefulElement), the Layout result holder and its  *)
(* lazily cached engine geometry.                                           *)
(*                                                                          *)
(* One handle is driven by an external single-threaded loop.  The element   *)
(* held by the handle and the layout engine are external collaborators:     *)
(* the element's layout outcome, the calls its paint makes on the layout    *)
(* result (bounds, order, update) and the engine's answers are inputs.  The *)
(* engine is reached through the paint context handed to a paint call: it   *)
(* may answer the first query for an identifier in any way, repeats that    *)
(* answer while the call runs (the context only queries computed geometry)  *)
(* and is free again in the next paint call.                                *)
(***************************************************************************)
EXTENDS Integers, Sequences, FiniteSets, TLC

\* ---------------------------------------------------------------- bounds
MaxId == 2          \* layout identifiers the engine hands out: 1..MaxId
MaxPayload == 1     \* element payloads (type D): 0..MaxPayload
MaxCalls == 4       \* calls of AnyElement::layout / AnyElement::paint
MaxPaintOps == 2    \* bounds()/order() reads and update calls made by one element paint
MaxKinds == 2
MaxBatch == 2
MaxChildren == 4
MaxBuilderCalls == 3
MaxClosureLen == 2  \* steps of an update closure

Ids == 1..MaxId
Payloads == 0..MaxPayload

\* ------------------------------------------------ Option<T> and Result<T>
None == <<>>
Some(x) == <<x>>
is_none(o) == o = None
is_some(o) == o # None
unwrap(o) == o[1]

Err(e) == <<"Err", e>>
Ok(x) == <<"Ok", x>>
is_ok(r) == r[1] = "Ok"
ok_value(r) == r[2]

\* util::ResultExt::log_err: Result<T> -> Option<T>, the error is logged
log_err(r) == IF is_ok(r) THEN Some(ok_value(r)) ELSE None

\* ------------------------------------------------------- engine geometry
\* EngineLayout { bounds: RectF, order: u32 }
EngineLayout(b, o) == [bounds |-> b, order |-> o]
\* EngineLayout::default(): zero-sized rectangle, order zero
DefaultEngineLayout == EngineLayout(<<0, 0, 0, 0>>, 0)
\* geometries the engine may have solved
EngineGeoms == {EngineLayout(<<0, 0, 10, 20>>, 1), EngineLayout(<<5, 5, 3, 4>>, 2)}
EngineAnswers == {Err("layout not computed")} \cup {Ok(g) : g \in EngineGeoms}
\* a paint context that has not been asked about any identifier
NoAnswers == [i \in Ids |-> None]
\* the engine seen through the paint context c, which has answered the
\* identifiers recorded in c and will answer a to any other
EngineOf(c, a) == [i \in Ids |-> IF is_some(c[i]) THEN unwrap(c[i]) ELSE a]
\* the paint context after the engine eng was asked about the ids in queried
Asked(c, eng, queried) ==
    [i \in Ids |-> IF \E k \in 1..Len(queried) : queried[k] = i
                   THEN Some(eng[i]) ELSE c[i]]
\* failures E::layout may return
LayoutErrors == {"layout context failed", "child layout failed"}

unwrap_or_default(o) == IF is_some(o) THEN unwrap(o) ELSE DefaultEngineLayout

\* PaintContext::computed_layout(id) against the engine state eng
computed_layout(eng, id) == eng[id]

PaintBeforeLayoutMsg == "paint called before layout"
ReentrantUpdateMsg == "reentrant calls to Layout::update are not supported"

VARIABLES
    layout,              \* StatefulElement.layout : Option<Layout>
    cx,                  \* the running paint's PaintContext: id -> Option of the engine's answer
    pc,                  \* "idle" | "paint" | "update" | "panicked"
    panicMsg,            \* Option of the message of the panic that ended the run
    handleLayoutCalls,   \* calls of AnyElement::layout
    handlePaintCalls,    \* calls of AnyElement::paint
    elementLayoutCalls,  \* invocations of E::layout
    elementPaintCalls,   \* invocations of E::paint
    elementRet,          \* Option of what the last E::layout returned: Ok(id of its Layout) or Err(e)
    layoutRet,           \* Option of what the last AnyElement::layout returned
    okLayouts,           \* AnyElement::layout calls that returned Ok
    gen,                 \* number of layout results stored in the handle
    replacedGeom,        \* engine_layout of the result the last store replaced
    replacedId,          \* Option of the id of the result the last store replaced
    returnedId,          \* Option of the id the last successful AnyElement::layout returned
    queries,             \* ids passed to computed_layout for the stored result
    paintsOfGen,         \* AnyElement::paint calls on the stored result
    prefetch,            \* lines 65-67 of the running/last paint: "none" | "cached" | "ok" | "failed"
    readsInPaint,        \* bounds()/order() reads made by the running element paint
    lastRead,            \* Option of the last bounds()/order() read on the stored result
    updatesInPaint,      \* Layout::update calls made by the running element paint
    closure,             \* steps the running update closure has taken
    taken,               \* Option: the payload held by the running update (its element_data local)
    updateArgs,          \* Option: holder and payload the running update handed to its closure
    updateRet,           \* Option: value the last completed update returned
    closureRuns,         \* update closures started during the running element paint
    children,            \* the parent's child list: what children_mut() returns
    added                \* the child()/children() calls made on the parent, in call order

callVars == <<handleLayoutCalls, handlePaintCalls, elementLayoutCalls,
              elementPaintCalls, elementRet, layoutRet, okLayouts, gen,
              replacedGeom, replacedId, returnedId>>
paintVars == <<paintsOfGen, prefetch>>
readVars == <<readsInPaint, lastRead>>
updateVars == <<updatesInPaint, closure, taken, updateArgs, updateRet, closureRuns>>
parentVars == <<children, added>>

vars == <<layout, cx, pc, panicMsg, handleLayoutCalls, handlePaintCalls,
          elementLayoutCalls, elementPaintCalls, elementRet, layoutRet,
          okLayouts, gen, replacedGeom, replacedId, returnedId,
          queries, paintsOfGen, prefetch,
          readsInPaint, lastRead, updatesInPaint, closure, taken, updateArgs,
          updateRet, closureRuns, children, added>>

\* ------------------------------------------------------------- Layout<V,D>
\* mutant: the constructor leaves the payload slot empty
Layout_new_empty(id, element_data) ==
    [id |-> id, engine_layout |-> None, element_data |-> None]

\* Layout::new
Layout_new(id, element_data) ==
    [id |-> id, engine_layout |-> None, element_data |-> Some(element_data)]

\* mutant: insert() instead of get_or_insert_with(): every read asks the engine
Layout_engine_layout_insert(l, eng) ==
    LET g == unwrap_or_default(log_err(computed_layout(eng, l.id)))
    IN  [self |-> [l EXCEPT !.engine_layout = Some(g)], geom |-> g,
         queried |-> <<l.id>>]

\* Layout::engine_layout: get_or_insert_with(|| computed_layout(id).log_err().unwrap_or_default());
\* gives the holder afterwards, the geometry referred to and the ids queried
Layout_engine_layout(l, eng) ==
    IF is_some(l.engine_layout)
    THEN [self |-> l, geom |-> unwrap(l.engine_layout), queried |-> <<>>]
    ELSE LET g == unwrap_or_default(log_err(computed_layout(eng, l.id)))
         IN  [self |-> [l EXCEPT !.engine_layout = Some(g)], geom |-> g,
              queried |-> <<l.id>>]

\* Layout::bounds
Layout_bounds(l, eng) ==
    LET r == Layout_engine_layout(l, eng)
    IN  [self |-> r.self, geom |-> r.geom, queried |-> r.queried,
         field |-> "bounds", value |-> r.geom.bounds]

\* Layout::order
Layout_order(l, eng) ==
    LET r == Layout_engine_layout(l, eng)
    IN  [self |-> r.self, geom |-> r.geom, queried |-> r.queried,
         field |-> "order", value |-> r.geom.order]

\* ------------------------------------------------------- StatefulElement
\* mutant: the element's layout is skipped when a result is already stored
StatefulElement_layout_skip(self_layout, res) ==
    IF is_some(self_layout)
    THEN [layout |-> self_layout, ret |-> Ok(unwrap(self_layout).id),
          stored |-> FALSE, element_layout_calls |-> 0]
    ELSE IF is_ok(res)
    THEN [layout |-> Some(ok_value(res)), ret |-> Ok(ok_value(res).id),
          stored |-> TRUE, element_layout_calls |-> 1]
    ELSE [layout |-> self_layout, ret |-> res,
          stored |-> FALSE, element_layout_calls |-> 1]

\* mutant: the new result inherits the geometry cached in the one it replaces
StatefulElement_layout_keep_geometry(self_layout, res) ==
    IF is_ok(res)
    THEN [layout |-> Some([ok_value(res) EXCEPT !.engine_layout =
                              IF is_some(self_layout)
                              THEN unwrap(self_layout).engine_layout ELSE None]),
          ret |-> Ok(ok_value(res).id),
          stored |-> TRUE, element_layout_calls |-> 1]
    ELSE [layout |-> self_layout, ret |-> res,
          stored |-> FALSE, element_layout_calls |-> 1]

\* mutant: self.layout.take() before the call, so a failure leaves None behind
StatefulElement_layout_take(self_layout, res) ==
    IF is_ok(res)
    THEN [layout |-> Some(ok_value(res)), ret |-> Ok(ok_value(res).id),
          stored |-> TRUE, element_layout_calls |-> 1]
    ELSE [layout |-> None, ret |-> res,
          stored |-> FALSE, element_layout_calls |-> 1]

\* mutant: the id returned is read from the result stored before the call
StatefulElement_layout_stale_id(self_layout, res) ==
    IF is_ok(res)
    THEN [layout |-> Some(ok_value(res)),
          ret |-> Ok(IF is_some(self_layout) THEN unwrap(self_layout).id
                     ELSE ok_value(res).id),
          stored |-> TRUE, element_layout_calls |-> 1]
    ELSE [layout |-> self_layout, ret |-> res, stored |-> FALSE,
          element_layout_calls |-> 1]

\* mutant: a failure of the element is reported as a fixed error
StatefulElement_layout_generic_err(self_layout, res) ==
    IF is_ok(res)
    THEN [layout |-> Some(ok_value(res)), ret |-> Ok(ok_value(res).id),
          stored |-> TRUE, element_layout_calls |-> 1]
    ELSE [layout |-> self_layout, ret |-> Err("layout context failed"),
          stored |-> FALSE, element_layout_calls |-> 1]

\* mutant: a failure of the element drops the cached geometry
StatefulElement_layout_invalidate(self_layout, res) ==
    IF is_ok(res)
    THEN [layout |-> Some(ok_value(res)), ret |-> Ok(ok_value(res).id),
          stored |-> TRUE, element_layout_calls |-> 1]
    ELSE [layout |-> IF is_some(self_layout)
                     THEN Some([unwrap(self_layout) EXCEPT !.engine_layout = None])
                     ELSE self_layout,
          ret |-> res, stored |-> FALSE, element_layout_calls |-> 1]

\* StatefulElement::layout, given the outcome res of its one call
\* self.element.layout(view, cx)
StatefulElement_layout(self_layout, res) ==
    IF is_ok(res)
    THEN [layout |-> Some(ok_value(res)), ret |-> Ok(ok_value(res).id),
          stored |-> TRUE, element_layout_calls |-> 1]
    ELSE [layout |-> self_layout, ret |-> res,
          stored |-> FALSE, element_layout_calls |-> 1]

\* mutant: paint asks the engine but drops the answer
paint_prefetch_discard(l, eng) ==
    IF is_none(l.engine_layout)
    THEN [self |-> l, queried |-> <<l.id>>]
    ELSE [self |-> l, queried |-> <<>>]

\* mutant: paint substitutes the default geometry when the query fails
paint_prefetch_default(l, eng) ==
    IF is_none(l.engine_layout)
    THEN [self |-> [l EXCEPT !.engine_layout =
                        Some(unwrap_or_default(log_err(computed_layout(eng, l.id))))],
          queried |-> <<l.id>>]
    ELSE [self |-> l, queried |-> <<>>]

\* mutant: the is_none() guard is missing, every paint fetches again
paint_prefetch_always(l, eng) ==
    [self |-> [l EXCEPT !.engine_layout = log_err(computed_layout(eng, l.id))],
     queried |-> <<l.id>>]

\* StatefulElement::paint lines 65-67: fetch the geometry when it is not cached
paint_prefetch(l, eng) ==
    IF is_none(l.engine_layout)
    THEN [self |-> [l EXCEPT !.engine_layout = log_err(computed_layout(eng, l.id))],
          queried |-> <<l.id>>]
    ELSE [self |-> l, queried |-> <<>>]

\* mutant: get_or_insert_with a default layout result instead of expect()
StatefulElement_paint_default_layout(self_layout, eng) ==
    LET f == paint_prefetch(IF is_some(self_layout) THEN unwrap(self_layout)
                            ELSE Layout_new(1, 0), eng)
    IN  [panic |-> None, layout |-> Some(f.self),
         queried |-> f.queried, element_paint_calls |-> 1]

\* mutant: a failed geometry lookup returns from paint before the element's paint
StatefulElement_paint_propagate(self_layout, eng) ==
    IF is_none(self_layout)
    THEN [panic |-> Some(PaintBeforeLayoutMsg), layout |-> self_layout,
          queried |-> <<>>, element_paint_calls |-> 0]
    ELSE LET f == paint_prefetch(unwrap(self_layout), eng)
         IN  [panic |-> None, layout |-> Some(f.self), queried |-> f.queried,
              element_paint_calls |->
                  IF is_none(f.self.engine_layout) THEN 0 ELSE 1]

\* StatefulElement::paint up to and including the call self.element.paint(view, layout, cx)
StatefulElement_paint(self_layout, eng) ==
    IF is_none(self_layout)
    THEN [panic |-> Some(PaintBeforeLayoutMsg), layout |-> self_layout,
          queried |-> <<>>, element_paint_calls |-> 0]
    ELSE LET f == paint_prefetch(unwrap(self_layout), eng)
         IN  [panic |-> None, layout |-> Some(f.self),
              queried |-> f.queried, element_paint_calls |-> 1]

\* mutant: the payload is cloned out of the slot instead of taken
update_take_clone(l) == [self |-> l, taken |-> l.element_data]

\* mutant: the whole holder is reset while the payload is taken
update_take_reset(l) ==
    [self |-> [l EXCEPT !.element_data = None, !.engine_layout = None],
     taken |-> l.element_data]

\* Layout::update: self.element_data.take()
update_take(l) == [self |-> [l EXCEPT !.element_data = None], taken |-> l.element_data]

\* mutant: the payload is not put back
update_restore_forgot(l, element_data) == l

\* Layout::update line 122: self.element_data = Some(element_data)
update_restore(l, element_data) == [l EXCEPT !.element_data = Some(element_data)]

\* ------------------------------------------------- the element (user code)
\* outcomes of E::layout: a failure, or a fresh Layout::new(id, data)
ElementLayoutResults ==
    {Err(e) : e \in LayoutErrors} \cup {Ok(Layout_new(i, d)) : i \in Ids, d \in Payloads}

\* an update closure is user code over (&mut Layout, &mut D) of at most
\* MaxClosureLen steps: "inc" changes the payload, "bounds" reads
\* self.bounds(cx), "update" calls self.update(..) again with a closure that
\* changes the payload
closure_inc(d) == (d + 1) % (MaxPayload + 1)
\* the value T a closure returns: the id of the holder it was handed, the
\* payload it found and the payload it leaves
ClosureResult(l, d0, d) == <<l.id, d0, d>>

\* the steps ops of a closure run on the pair (l, d); panicked when one panics
RECURSIVE RunSteps(_, _, _, _)
RunSteps(ops, l, d, eng) ==
    IF ops = <<>>
    THEN [self |-> l, data |-> d, panicked |-> FALSE]
    ELSE CASE Head(ops) = "inc" -> RunSteps(Tail(ops), l, closure_inc(d), eng)
           [] Head(ops) = "bounds" ->
                  RunSteps(Tail(ops), Layout_bounds(l, eng).self, d, eng)
           [] Head(ops) = "update" ->
                  IF is_none(l.element_data)
                  THEN [self |-> l, data |-> d, panicked |-> TRUE]
                  ELSE RunSteps(Tail(ops),
                           [l EXCEPT !.element_data = Some(closure_inc(unwrap(l.element_data)))],
                           d, eng)

\* the closure called directly on the pair (l, d); result None when it panics
RunClosure(ops, l, d, eng) ==
    LET r == RunSteps(ops, l, d, eng)
    IN  [self |-> r.self, data |-> r.data,
         result |-> IF r.panicked THEN None
                    ELSE Some(ClosureResult(r.self, d, r.data))]

\* Element::into_any: the handle starts with layout: None
Init ==
    /\ layout = None
    /\ cx = NoAnswers
    /\ pc = "idle"
    /\ panicMsg = None
    /\ handleLayoutCalls = 0
    /\ handlePaintCalls = 0
    /\ elementLayoutCalls = 0
    /\ elementPaintCalls = 0
    /\ elementRet = None
    /\ layoutRet = None
    /\ okLayouts = 0
    /\ gen = 0
    /\ replacedGeom = None
    /\ replacedId = None
    /\ returnedId = None
    /\ queries = <<>>
    /\ paintsOfGen = 0
    /\ prefetch = "none"
    /\ readsInPaint = 0
    /\ lastRead = None
    /\ updatesInPaint = 0
    /\ closure = <<>>
    /\ taken = None
    /\ updateArgs = None
    /\ updateRet = None
    /\ closureRuns = 0
    /\ children = <<>>
    /\ added = <<>>

\* AnyElement::layout -> StatefulElement::layout
AnyElement_layout ==
    /\ pc = "idle"
    /\ handleLayoutCalls + handlePaintCalls < MaxCalls
    /\ \E res \in ElementLayoutResults :
          LET r == StatefulElement_layout(layout, res)
          IN  /\ layout' = r.layout
              /\ elementRet' = Some(IF is_ok(res) THEN Ok(ok_value(res).id) ELSE res)
              /\ layoutRet' = Some(r.ret)
              /\ okLayouts' = IF is_ok(r.ret) THEN okLayouts + 1 ELSE okLayouts
              /\ elementLayoutCalls' = elementLayoutCalls + r.element_layout_calls
              /\ gen' = IF r.stored THEN gen + 1 ELSE gen
              /\ replacedGeom' = IF r.stored
                                 THEN (IF is_some(layout)
                                       THEN unwrap(layout).engine_layout ELSE None)
                                 ELSE replacedGeom
              /\ replacedId' = IF r.stored /\ is_some(layout)
                               THEN Some(unwrap(layout).id) ELSE replacedId
              /\ returnedId' = IF is_ok(r.ret) THEN Some(ok_value(r.ret))
                               ELSE returnedId
              /\ queries' = IF r.stored THEN <<>> ELSE queries
              /\ paintsOfGen' = IF r.stored THEN 0 ELSE paintsOfGen
              /\ prefetch' = IF r.stored THEN "none" ELSE prefetch
              /\ lastRead' = IF r.stored THEN None ELSE lastRead
    /\ handleLayoutCalls' = handleLayoutCalls + 1
    /\ UNCHANGED <<cx, pc, panicMsg, handlePaintCalls, elementPaintCalls,
                   readsInPaint>>
    /\ UNCHANGED updateVars
    /\ UNCHANGED parentVars

\* AnyElement::paint -> StatefulElement::paint up to the call of E::paint;
\* expect() panics when no layout result is stored
AnyElement_paint ==
    /\ pc = "idle"
    /\ handleLayoutCalls + handlePaintCalls < MaxCalls
    /\ handlePaintCalls' = handlePaintCalls + 1
    /\ \E a \in EngineAnswers :
       LET eng == EngineOf(NoAnswers, a)
           r == StatefulElement_paint(layout, eng)
       IN  /\ layout' = r.layout
           /\ queries' = queries \o r.queried
           /\ elementPaintCalls' = elementPaintCalls + r.element_paint_calls
           /\ panicMsg' = r.panic
           /\ IF is_some(r.panic)
              THEN /\ pc' = "panicked"
                   /\ UNCHANGED cx
                   /\ UNCHANGED paintVars
              ELSE /\ pc' = "paint"
                   /\ cx' = Asked(NoAnswers, eng, r.queried)
                   /\ paintsOfGen' = paintsOfGen + 1
                   /\ prefetch' = IF r.queried = <<>> THEN "cached"
                                  ELSE IF is_some(unwrap(r.layout).engine_layout)
                                       THEN "ok" ELSE "failed"
    /\ UNCHANGED <<handleLayoutCalls, elementLayoutCalls, elementRet,
                   layoutRet, okLayouts, gen, replacedGeom, replacedId,
                   returnedId>>
    /\ UNCHANGED readVars
    /\ UNCHANGED updateVars
    /\ UNCHANGED parentVars

\* a bounds()/order() read made by user code on the stored layout result
Read(r, eng) ==
    /\ layout' = Some(r.self)
    /\ cx' = Asked(cx, eng, r.queried)
    /\ queries' = queries \o r.queried
    /\ lastRead' = Some([field |-> r.field, value |-> r.value, geom |-> r.geom])
    /\ readsInPaint' = readsInPaint + 1

\* E::paint calls layout.bounds(cx)
ElementPaint_bounds ==
    /\ pc = "paint"
    /\ readsInPaint + updatesInPaint < MaxPaintOps
    /\ \E a \in EngineAnswers :
          Read(Layout_bounds(unwrap(layout), EngineOf(cx, a)), EngineOf(cx, a))
    /\ UNCHANGED <<pc, panicMsg>>
    /\ UNCHANGED callVars
    /\ UNCHANGED parentVars
    /\ UNCHANGED paintVars
    /\ UNCHANGED updateVars

\* E::paint calls layout.order(cx)
ElementPaint_order ==
    /\ pc = "paint"
    /\ readsInPaint + updatesInPaint < MaxPaintOps
    /\ \E a \in EngineAnswers :
          Read(Layout_order(unwrap(layout), EngineOf(cx, a)), EngineOf(cx, a))
    /\ UNCHANGED <<pc, panicMsg>>
    /\ UNCHANGED callVars
    /\ UNCHANGED parentVars
    /\ UNCHANGED paintVars
    /\ UNCHANGED updateVars

\* E::paint calls layout.update(..): Layout::update up to the call of the closure;
\* with an empty payload slot map() skips the closure and expect() panics
Layout_update ==
    /\ pc = "paint"
    /\ readsInPaint + updatesInPaint < MaxPaintOps
    /\ updatesInPaint' = updatesInPaint + 1
    /\ LET t == update_take(unwrap(layout))
       IN  /\ layout' = Some(t.self)
           /\ IF is_none(t.taken)
              THEN /\ pc' = "panicked"
                   /\ panicMsg' = Some(ReentrantUpdateMsg)
                   /\ UNCHANGED <<taken, updateArgs, closureRuns>>
              ELSE /\ taken' = t.taken
                   /\ updateArgs' = Some([self |-> t.self, data |-> unwrap(t.taken)])
                   /\ closureRuns' = closureRuns + 1
                   /\ pc' = "update"
                   /\ UNCHANGED panicMsg
    /\ closure' = <<>>
    /\ UNCHANGED <<cx, queries, readsInPaint, lastRead, updateRet>>
    /\ UNCHANGED callVars
    /\ UNCHANGED parentVars
    /\ UNCHANGED paintVars

\* the closure changes the payload through its &mut D
Closure_inc ==
    /\ pc = "update"
    /\ Len(closure) < MaxClosureLen
    /\ closure' = Append(closure, "inc")
    /\ taken' = Some(closure_inc(unwrap(taken)))
    /\ UNCHANGED <<layout, cx, pc, panicMsg, queries, updatesInPaint,
                   updateArgs, updateRet, closureRuns>>
    /\ UNCHANGED callVars
    /\ UNCHANGED parentVars
    /\ UNCHANGED paintVars
    /\ UNCHANGED readVars

\* the closure reads self.bounds(cx) through its &mut Layout
Closure_bounds ==
    /\ pc = "update"
    /\ Len(closure) < MaxClosureLen
    /\ closure' = Append(closure, "bounds")
    /\ \E a \in EngineAnswers :
          Read(Layout_bounds(unwrap(layout), EngineOf(cx, a)), EngineOf(cx, a))
    /\ UNCHANGED <<pc, panicMsg, updatesInPaint, taken, updateArgs,
                   updateRet, closureRuns>>
    /\ UNCHANGED callVars
    /\ UNCHANGED parentVars
    /\ UNCHANGED paintVars

\* the closure calls self.update(inner) on the holder it was handed:
\* Layout::update again, whose take() finds the slot empty
Closure_update ==
    /\ pc = "update"
    /\ Len(closure) < MaxClosureLen
    /\ closure' = Append(closure, "update")
    /\ LET t == update_take(unwrap(layout))
       IN  IF is_none(t.taken)
           THEN /\ pc' = "panicked"
                /\ panicMsg' = Some(ReentrantUpdateMsg)
                /\ layout' = Some(t.self)
                /\ UNCHANGED closureRuns
           ELSE \* the inner closure runs on the payload found in the slot
                /\ layout' = Some(update_restore(t.self, closure_inc(unwrap(t.taken))))
                /\ closureRuns' = closureRuns + 1
                /\ UNCHANGED <<pc, panicMsg>>
    /\ UNCHANGED <<cx, queries, readsInPaint, lastRead, updatesInPaint,
                   taken, updateArgs, updateRet>>
    /\ UNCHANGED callVars
    /\ UNCHANGED parentVars
    /\ UNCHANGED paintVars

\* the closure returns: Layout::update restores the payload and returns the result
Layout_update_return ==
    /\ pc = "update"
    /\ updateRet' = Some(ClosureResult(unwrap(layout), unwrap(updateArgs).data,
                                       unwrap(taken)))
    /\ layout' = Some(update_restore(unwrap(layout), unwrap(taken)))
    /\ taken' = None
    /\ updateArgs' = None
    /\ closure' = <<>>
    /\ pc' = "paint"
    /\ UNCHANGED <<cx, panicMsg, queries, updatesInPaint, closureRuns>>
    /\ UNCHANGED callVars
    /\ UNCHANGED parentVars
    /\ UNCHANGED paintVars
    /\ UNCHANGED readVars

\* E::paint returns, and with it StatefulElement::paint; the locals of the
\* element's paint and the paint context are gone
ElementPaint_return ==
    /\ pc = "paint"
    /\ pc' = "idle"
    /\ cx' = NoAnswers
    /\ readsInPaint' = 0
    /\ updatesInPaint' = 0
    /\ updateRet' = None
    /\ closureRuns' = 0
    /\ UNCHANGED <<layout, panicMsg, queries, lastRead, closure, taken, updateArgs>>
    /\ UNCHANGED callVars
    /\ UNCHANGED parentVars
    /\ UNCHANGED paintVars

Next ==
    \/ AnyElement_layout
    \/ AnyElement_paint
    \/ ElementPaint_bounds
    \/ ElementPaint_order
    \/ Layout_update
    \/ Closure_inc
    \/ Closure_bounds
    \/ Closure_update
    \/ Layout_update_return
    \/ ElementPaint_return

Spec == Init /\ [][Next]_vars

\* ---------------------------------------------------------- ParentElement
\* values the caller hands to child()/children(): anything IntoElement
IntoElements == 1..MaxKinds

\* a children() argument: an iterator yielding up to MaxBatch values
Batches == UNION {[1..k -> IntoElements] : k \in 0..MaxBatch}

\* IntoElement::into_element: the element the value converts to
into_element(x) == [element_of |-> x]

\* Element::into_any: a fresh handle around the element, layout: None
into_any(e) == [element |-> e, layout |-> None]

\* SmallVec::push
push(vec, x) == Append(vec, x)

\* SmallVec::extend over children.into_iter().map(...): one push per item,
\* in iteration order
RECURSIVE extend_map(_, _)
extend_map(vec, iter) ==
    IF iter = <<>> THEN vec
    ELSE extend_map(push(vec, into_any(into_element(Head(iter)))), Tail(iter))

\* mutant: the child is inserted at the front of the list
ParentElement_child_front(vec, c) == <<into_any(into_element(c))>> \o vec

\* ParentElement::child
ParentElement_child(vec, c) == push(vec, into_any(into_element(c)))

\* ParentElement::children
ParentElement_children(vec, iter) == extend_map(vec, iter)

\* parent.child(c)
Builder_child ==
    /\ Len(added) < MaxBuilderCalls
    /\ Len(children) < MaxChildren
    /\ \E c \in IntoElements :
          /\ children' = ParentElement_child(children, c)
          /\ added' = Append(added, [call |-> "child", items |-> <<c>>])
    /\ UNCHANGED <<layout, cx, pc, panicMsg, queries>>
    /\ UNCHANGED <<callVars, paintVars, readVars, updateVars>>

\* parent.children(iter)
Builder_children ==
    /\ Len(added) < MaxBuilderCalls
    /\ \E iter \in Batches :
          /\ Len(children) + Len(iter) <= MaxChildren
          /\ children' = ParentElement_children(children, iter)
          /\ added' = Append(added, [call |-> "children", items |-> iter])
    /\ UNCHANGED <<layout, cx, pc, panicMsg, queries>>
    /\ UNCHANGED <<callVars, paintVars, readVars, updateVars>>

NextParent ==
    \/ Builder_child
    \/ Builder_children

SpecParent == Init /\ [][NextParent]_vars

\* ------------------------------------------------------------ step names
LayoutCallStep == handleLayoutCalls' = handleLayoutCalls + 1
PaintCallStep == handlePaintCalls' = handlePaintCalls + 1
ReadStep == readsInPaint' = readsInPaint + 1
UpdateCallStep == updatesInPaint' = updatesInPaint + 1
UpdateReturnStep == pc = "update" /\ pc' = "paint"
DefaultField(f) ==
    IF f = "bounds" THEN DefaultEngineLayout.bounds ELSE DefaultEngineLayout.order

\* ----------------------------------------------------------------- claims

\* C1: every AnyElement::layout call invokes E::layout exactly once, every
\* AnyElement::paint call that does not panic invokes E::paint exactly once,
\* no other step invokes either, and E::paint is never invoked on a handle
\* whose E::layout has not been invoked.
C1_DispatchOncePerCall ==
    [][/\ elementLayoutCalls' = elementLayoutCalls + (IF LayoutCallStep THEN 1 ELSE 0)
       /\ elementPaintCalls' = elementPaintCalls +
              (IF PaintCallStep /\ pc' # "panicked" THEN 1 ELSE 0)
       /\ (elementPaintCalls' > elementPaintCalls => elementLayoutCalls > 0)]_vars

C1_Witness ==
    /\ pc = "idle"
    /\ handleLayoutCalls = 2 /\ elementLayoutCalls = 2
    /\ handlePaintCalls = 2 /\ elementPaintCalls = 2

\* C2: AnyElement::paint on a handle whose layout is None panics with the
\* expect() message, without any engine query, without invoking E::paint and
\* without storing a layout result.
C2_PaintBeforeLayoutPanics ==
    [][(PaintCallStep /\ is_none(layout)) =>
          /\ pc' = "panicked"
          /\ panicMsg' = Some(PaintBeforeLayoutMsg)
          /\ queries' = queries
          /\ elementPaintCalls' = elementPaintCalls
          /\ layout' = None]_vars

C2_Witness ==
    /\ pc = "panicked"
    /\ panicMsg = Some(PaintBeforeLayoutMsg)
    /\ handlePaintCalls = 1
    /\ elementPaintCalls = 0

\* C3: a bounds()/order() read that follows another read on the same layout
\* result refers to the same geometry, returns the same value when it reads
\* the same field, and issues no engine query.
C3_ConsecutiveReadsAgree ==
    [][(ReadStep /\ is_some(lastRead) /\ gen' = gen) =>
          /\ unwrap(lastRead').geom = unwrap(lastRead).geom
          /\ (unwrap(lastRead').field = unwrap(lastRead).field =>
                 unwrap(lastRead').value = unwrap(lastRead).value)
          /\ queries' = queries]_vars

C3_Witness ==
    /\ readsInPaint = 2
    /\ is_some(lastRead)
    /\ unwrap(lastRead).geom = DefaultEngineLayout
    /\ Len(queries) = 2

\* C4 (as claimed): when the first paint on a layout result has returned, the
\* engine has been queried exactly once for that result.
C4_OneQueryPerPass ==
    (pc = "idle" /\ is_some(layout) /\ paintsOfGen = 1) => Len(queries) = 1

\* C5 (as claimed): every AnyElement::layout call on a handle holding cached
\* geometry leaves a stored result without geometry.
C5_AnyRelayoutDiscards ==
    [][(LayoutCallStep /\ is_some(layout) /\ is_some(unwrap(layout).engine_layout)) =>
          (is_some(layout') /\ is_none(unwrap(layout').engine_layout))]_vars

\* C5 (amended): an AnyElement::layout call that returns Ok leaves a stored
\* result with the returned id and no geometry, and the first paint on it
\* queries the engine for its id and holds what the engine answers now.
C5_SuccessfulRelayoutDiscards ==
    [][/\ (LayoutCallStep /\ is_ok(unwrap(layoutRet'))) =>
             /\ is_some(layout')
             /\ is_none(unwrap(layout').engine_layout)
             /\ queries' = <<>>
       /\ (PaintCallStep /\ is_some(layout) /\ paintsOfGen = 0) =>
             /\ queries' = <<unwrap(layout).id>>
             /\ is_some(cx'[unwrap(layout).id])
             /\ unwrap(layout').engine_layout =
                    log_err(unwrap(cx'[unwrap(layout).id]))]_vars

C5_Witness ==
    /\ is_some(replacedGeom)
    /\ is_some(layout)
    /\ paintsOfGen = 1
    /\ queries = <<unwrap(layout).id>>
    /\ is_some(unwrap(layout).engine_layout)
    /\ unwrap(layout).engine_layout # replacedGeom

\* C6 (as claimed): the stored layout result is None before the first
\* AnyElement::layout call and Some after any AnyElement::layout call.
C6_PresentAfterAnyLayoutCall ==
    /\ (handleLayoutCalls = 0 => is_none(layout))
    /\ (handleLayoutCalls > 0 => is_some(layout))

\* C6 (amended): the stored layout result is None until an AnyElement::layout
\* call has returned Ok and Some in every state after one has.
C6_PresentAfterSuccessfulLayout ==
    /\ (okLayouts = 0 => is_none(layout))
    /\ (okLayouts > 0 => is_some(layout))

C6_Witness ==
    /\ okLayouts = 1
    /\ handleLayoutCalls = 2
    /\ handlePaintCalls = 1
    /\ ~is_ok(unwrap(layoutRet))
    /\ is_some(layout)

\* C7: a paint on a stored result whose geometry lookup fails does not panic
\* and invokes E::paint; every read made during a paint whose lookup failed
\* returns the field of the default geometry and does not panic.
C7_EngineFailureDegrades ==
    [][/\ (/\ PaintCallStep
           /\ is_some(layout)
           /\ is_none(unwrap(layout).engine_layout)
           /\ is_some(cx'[unwrap(layout).id])
           /\ ~is_ok(unwrap(cx'[unwrap(layout).id]))) =>
             /\ pc' = "paint"
             /\ panicMsg' = None
             /\ elementPaintCalls' = elementPaintCalls + 1
       /\ (ReadStep /\ prefetch = "failed") =>
             /\ pc' # "panicked"
             /\ unwrap(lastRead').geom = DefaultEngineLayout
             /\ unwrap(lastRead').value = DefaultField(unwrap(lastRead').field)]_vars

C7_Witness ==
    /\ pc = "paint"
    /\ prefetch = "failed"
    /\ readsInPaint = 2
    /\ unwrap(lastRead).geom = DefaultEngineLayout
    /\ unwrap(lastRead).field = "order"

\* C8: while the same layout result stays stored, geometry that is cached in
\* it is not changed by any step.
C8_CachedGeometryFixed ==
    [][(is_some(layout) /\ is_some(unwrap(layout).engine_layout) /\ gen' = gen) =>
          /\ is_some(layout')
          /\ unwrap(layout').engine_layout = unwrap(layout).engine_layout]_vars

C8_Witness ==
    /\ is_some(layout)
    /\ is_some(unwrap(layout).engine_layout)
    /\ paintsOfGen >= 2
    /\ pc = "paint"
    /\ readsInPaint >= 1
    /\ cx = NoAnswers
    /\ unwrap(lastRead).geom = unwrap(unwrap(layout).engine_layout)

\* C9 (as claimed): once a paint on the stored layout result has returned,
\* the result holds cached geometry.
C9_CachedAfterPaint ==
    (pc = "idle" /\ is_some(layout) /\ paintsOfGen >= 1) =>
        is_some(unwrap(layout).engine_layout)

\* C10: when update returns, it returns what the closure gives when called
\* directly on the holder and payload update handed to it, the payload slot
\* holds the payload as that call leaves it, the rest of the holder is as that
\* call leaves it; and an update called by the element's paint never panics.
C10_UpdateReturnsClosureResult ==
    [][/\ UpdateReturnStep =>
             LET a == unwrap(updateArgs)
                 d == RunClosure(closure, a.self, a.data, EngineOf(cx, Err("layout not computed")))
             IN  /\ updateRet' = d.result
                 /\ unwrap(layout').element_data = Some(d.data)
                 /\ [unwrap(layout') EXCEPT !.element_data = None] = d.self
       /\ (UpdateCallStep /\ is_some(unwrap(layout).element_data)) =>
             /\ pc' = "update"
             /\ panicMsg' = None
       /\ (pc' = "paint" => is_some(unwrap(layout').element_data))]_vars

C10_Witness ==
    /\ pc = "paint"
    /\ updatesInPaint = 2
    /\ is_some(updateRet)
    /\ unwrap(updateRet)[2] # unwrap(updateRet)[3]
    /\ unwrap(layout).element_data = Some(unwrap(updateRet)[3])

ReentrantCallStep ==
    /\ pc = "update"
    /\ Len(closure') = Len(closure) + 1
    /\ closure'[Len(closure')] = "update"

\* C11: a step of an update closure that calls update on the holder it was
\* handed panics with the expect() message: no closure is started, the
\* payload held by the outer update is unchanged and the slot stays empty.
C11_ReentrantUpdatePanics ==
    [][ReentrantCallStep =>
          /\ pc' = "panicked"
          /\ panicMsg' = Some(ReentrantUpdateMsg)
          /\ closureRuns' = closureRuns
          /\ taken' = taken
          /\ is_none(unwrap(layout').element_data)]_vars

C11_Witness ==
    /\ pc = "panicked"
    /\ panicMsg = Some(ReentrantUpdateMsg)
    /\ closure = <<"inc", "update">>
    /\ closureRuns = 1
    /\ taken = Some(closure_inc(unwrap(updateArgs).data))

\* C12: the payload slot of the stored layout result is full whenever no
\* update call is running, and it is empty only while an update call that has
\* taken the payload has not returned.
C12_PayloadPresentOutsideUpdate ==
    is_some(layout) =>
        /\ (pc \in {"idle", "paint"} => is_some(unwrap(layout).element_data))
        /\ (is_none(unwrap(layout).element_data) =>
               (pc \in {"update", "panicked"} /\ is_some(taken)))
        /\ (pc = "update" => is_none(unwrap(layout).element_data))

C12_Witness ==
    /\ pc = "update"
    /\ updatesInPaint = 2
    /\ is_some(updateRet)
    /\ is_none(unwrap(layout).element_data)
    /\ is_some(taken)

RECURSIVE AddedInOrder(_)
AddedInOrder(log) ==
    IF log = <<>> THEN <<>> ELSE Head(log).items \o AddedInOrder(Tail(log))

\* C13: after any sequence of child(x) and children(xs) calls the child list
\* is the concatenation, in call order and within a call in iteration order,
\* of one fresh handle per added value: nothing reordered, dropped or doubled.
C13_ChildrenInCallOrder ==
    LET xs == AddedInOrder(added)
    IN  /\ Len(children) = Len(xs)
        /\ \A i \in 1..Len(xs) :
              /\ children[i].element = into_element(xs[i])
              /\ children[i].layout = None

C13_Witness ==
    /\ Len(added) = 3
    /\ added[1].call = "child"
    /\ added[2].call = "children"
    /\ Len(added[2].items) = 2
    /\ added[2].items[1] # added[2].items[2]
    /\ added[3].call = "child"
    /\ added[3].items[1] # added[1].items[1]
    /\ Len(children) = 4

\* C14: a layout call on the handle that succeeds returns the id of the
\* layout result the element just produced, which is the result stored; every
\* engine query made for the handle afterwards passes that id, also when the
\* result replaced had another id.
C14_QueriesUseReturnedId ==
    [][/\ (LayoutCallStep /\ is_ok(unwrap(layoutRet'))) =>
             /\ layoutRet' = elementRet'
             /\ unwrap(layout').id = ok_value(unwrap(layoutRet'))
             /\ returnedId' = Some(unwrap(layout').id)
       /\ (queries' # queries /\ queries' # <<>>) =>
             /\ queries' = Append(queries, unwrap(returnedId))
             /\ unwrap(layout').id = unwrap(returnedId')
             /\ \A i \in Ids : is_some(cx'[i]) => i = unwrap(returnedId)]_vars

C14_Witness ==
    /\ gen = 2
    /\ is_some(replacedId)
    /\ unwrap(replacedId) # unwrap(returnedId)
    /\ is_some(replacedGeom)
    /\ pc = "paint"
    /\ queries = <<unwrap(returnedId)>>
    /\ is_some(cx[unwrap(returnedId)])

\* C15: a layout call on the handle fails exactly when the element's layout
\* fails, and then it returns the element's own error, stores no result and
\* asks the engine nothing.
C15_LayoutFailurePropagates ==
    [][LayoutCallStep =>
          /\ is_ok(unwrap(layoutRet')) <=> is_ok(unwrap(elementRet'))
          /\ ~is_ok(unwrap(elementRet')) =>
                /\ layoutRet' = elementRet'
                /\ gen' = gen
                /\ layout' = layout
                /\ queries' = queries
                /\ cx' = cx]_vars

C15_Witness ==
    /\ layoutRet = Some(Err("child layout failed"))
    /\ elementRet = layoutRet
    /\ handleLayoutCalls = 2
    /\ gen = 1
    /\ handlePaintCalls = 1
    /\ queries = <<unwrap(layout).id>>
    /\ pc = "idle"

GeomField(g, f) == IF f = "bounds" THEN g.bounds ELSE g.order

\* C16: when the engine answers the query of the handle's paint with a
\* geometry, that geometry is cached in the stored result before the
\* element's paint runs, and every bounds()/order() read made inside that
\* paint returns the engine's value for the id without asking the engine.
C16_PrefetchedBeforeElementPaint ==
    [][/\ (/\ PaintCallStep
           /\ is_some(layout)
           /\ is_none(unwrap(layout).engine_layout)
           /\ is_some(cx'[unwrap(layout).id])
           /\ is_ok(unwrap(cx'[unwrap(layout).id]))) =>
             /\ pc' = "paint"
             /\ readsInPaint' = 0
             /\ unwrap(layout').engine_layout =
                    Some(ok_value(unwrap(cx'[unwrap(layout).id])))
       /\ (/\ ReadStep
           /\ is_some(cx[unwrap(layout).id])
           /\ is_ok(unwrap(cx[unwrap(layout).id]))) =>
             /\ queries' = queries
             /\ cx' = cx
             /\ unwrap(lastRead').geom = ok_value(unwrap(cx[unwrap(layout).id]))
             /\ unwrap(lastRead').value =
                    GeomField(ok_value(unwrap(cx[unwrap(layout).id])),
                              unwrap(lastRead').field)]_vars

C16_Witness ==
    /\ pc = "paint"
    /\ prefetch = "ok"
    /\ readsInPaint = 2
    /\ queries = <<unwrap(layout).id>>
    /\ unwrap(lastRead).field = "bounds"
    /\ unwrap(lastRead).value = <<5, 5, 3, 4>>
    /\ cx[unwrap(layout).id] = Some(Ok(EngineLayout(<<5, 5, 3, 4>>, 2)))

\* C17: a layout call on the handle that fails changes nothing the handle
\* stores (result, id, cached geometry, payload), and a paint that follows it
\* runs the element's paint on that same result, with its cached geometry and
\* without a query when the geometry was cached.
C17_FailedLayoutKeepsState ==
    [][/\ (LayoutCallStep /\ ~is_ok(unwrap(layoutRet'))) =>
             /\ layout' = layout
             /\ gen' = gen
             /\ returnedId' = returnedId
             /\ paintsOfGen' = paintsOfGen
             /\ lastRead' = lastRead
       /\ (/\ PaintCallStep
           /\ is_some(layoutRet)
           /\ ~is_ok(unwrap(layoutRet))
           /\ is_some(layout)) =>
             /\ pc' = "paint"
             /\ elementPaintCalls' = elementPaintCalls + 1
             /\ unwrap(layout').id = unwrap(returnedId)
             /\ unwrap(layout').element_data = unwrap(layout).element_data
             /\ (is_some(unwrap(layout).engine_layout) =>
                    (layout' = layout /\ queries' = queries))]_vars

C17_Witness ==
    /\ pc = "paint"
    /\ is_some(layoutRet)
    /\ ~is_ok(unwrap(layoutRet))
    /\ handleLayoutCalls = 2
    /\ gen = 1
    /\ paintsOfGen = 2
    /\ prefetch = "cached"
    /\ queries = <<unwrap(layout).id>>
    /\ unwrap(layout).engine_layout \in {Some(g) : g \in EngineGeoms}

\* C18: when the engine fails the query of the handle's paint and the
\* element's paint reads neither bounds nor order, the stored result has no
\* cached geometry when the paint returns, and each later paint on a result
\* without cached geometry asks the engine again.
C18_FailedQueryRetried ==
    [][/\ (/\ pc = "paint"
           /\ pc' = "idle"
           /\ is_some(cx[unwrap(layout).id])
           /\ ~is_ok(unwrap(cx[unwrap(layout).id]))
           /\ readsInPaint = 0) =>
             is_none(unwrap(layout').engine_layout)
       /\ (/\ PaintCallStep
           /\ is_some(layout)
           /\ is_none(unwrap(layout).engine_layout)) =>
             /\ queries' = Append(queries, unwrap(layout).id)
             /\ is_some(cx'[unwrap(layout).id])]_vars

C18_Witness ==
    /\ pc = "paint"
    /\ paintsOfGen = 3
    /\ queries = <<unwrap(layout).id, unwrap(layout).id, unwrap(layout).id>>
    /\ lastRead = None
    /\ prefetch = "ok"

\* C19: starting an update, a closure step that changes the payload and the
\* return of an update leave the id and the cached geometry as they were, and
\* an update whose closure makes no read returns with the id and geometry it
\* started with; a bounds()/order() read and the handle's paint change
\* neither the id nor the payload.
C19_UpdateKeepsIdAndGeometry ==
    [][/\ (UpdateCallStep /\ pc' = "update") =>
             /\ unwrap(layout').id = unwrap(layout).id
             /\ unwrap(layout').engine_layout = unwrap(layout).engine_layout
       /\ (pc = "update" /\ pc' = "update" /\ taken' # taken) =>
             layout' = layout
       /\ UpdateReturnStep =>
             /\ unwrap(layout').id = unwrap(layout).id
             /\ unwrap(layout').engine_layout = unwrap(layout).engine_layout
             /\ (\A k \in 1..Len(closure) : closure[k] # "bounds") =>
                   /\ unwrap(layout').id = unwrap(updateArgs).self.id
                   /\ unwrap(layout').engine_layout =
                          unwrap(updateArgs).self.engine_layout
       /\ ReadStep =>
             /\ unwrap(layout').id = unwrap(layout).id
             /\ unwrap(layout').element_data = unwrap(layout).element_data
             /\ taken' = taken
       /\ (PaintCallStep /\ is_some(layout)) =>
             /\ unwrap(layout').id = unwrap(layout).id
             /\ unwrap(layout').element_data = unwrap(layout).element_data]_vars

C19_Witness ==
    /\ pc = "paint"
    /\ prefetch = "ok"
    /\ readsInPaint = 1
    /\ updatesInPaint = 1
    /\ is_some(updateRet)
    /\ unwrap(updateRet)[2] # unwrap(updateRet)[3]
    /\ unwrap(layout).element_data = Some(unwrap(updateRet)[3])
    /\ unwrap(layout).engine_layout \in {Some(g) : g \in EngineGeoms}

====
